---- MODULE Spec2Model ----
(***************************************************************************)
(* AgentDB (src/unnamed/part_005): a facade over an hnswlib-node           *)
(* HierarchicalNSW cosine index, a Map of vector records (memoryStore), a  *)
(* Map of reasoning records (reasoningBank) and an id counter.             *)
(*                                                                         *)
(* One client drives one AgentDB instance with whole, synchronous calls.   *)
(* Every public method is one action; the value it returns or the error it *)
(* throws is left in ret, and the notifications it emitted in emitted.     *)
(* The client holds the snapshot of an export until its next call other    *)
(* than clear and import: the calls in between that would keep it are the  *)
(* reads, which leave the instance as it is.                               *)
(*                                                                         *)
(* The index is the external library's: a label -> vector table of a fixed *)
(* dimension and a fixed capacity (initIndex's maxElements) whose addPoint *)
(* rejects a vector of another length and a new label once the capacity is *)
(* used up, and whose searchKnn returns the nearest stored labels.  With   *)
(* efSearch far above the handful of points modelled here the graph search *)
(* is exhaustive, so searchKnn is modelled as the exact k nearest.  Which  *)
(* of several equally distant points survive the cut to k is left to the   *)
(* library's heap and is a free choice here; the survivors come back       *)
(* ordered by (distance, label).                                           *)
(***************************************************************************)
EXTENDS Integers, Sequences, FiniteSets, TLC

(***************************************************************************)
(* Bounds of the model.                                                    *)
(***************************************************************************)
MaxAdds == 3        \* addVector is offered while currentId < MaxAdds
MaxReasoning == 1   \* addReasoning is offered while the bank holds fewer records
MaxK == 2           \* search is called with k in 1..MaxK

(***************************************************************************)
(* Constructor options of the instance under study, and the defaults.      *)
(***************************************************************************)
OptDimension == 2      \* options.dimension
OptMaxElements == 2    \* options.maxElements
DefaultM == 16
DefaultEfConstruction == 200
DefaultEfSearch == 50

(***************************************************************************)
(* Inputs.  Vector components are small non-negative integers.             *)
(***************************************************************************)
ValidVectors == {<<1, 0>>, <<1, 1>>}
ShortVector == <<1>>
LongVector == <<1, 0, 0>>
Vectors == ValidVectors \cup {ShortVector}

NoMetadata == [k \in {} |-> 0]
MetaA1C1 == [k \in {"a", "c"} |-> 1]
MetaA2B2 == [k \in {"a", "b"} |-> 2]
AddMetadata == {MetaA1C1}
UpdateMetadataArgs == {MetaA2B2}

Ids == 0..MaxAdds
ClockValues == {0, 1}      \* the readings of Date.now()
RandomSuffixes == {1}      \* the suffixes Math.random() yields

(***************************************************************************)
(* Float32Array: every component is rounded to the nearest IEEE binary32   *)
(* value.  On the integers that is exact up to 2^24; between 2^24 and 2^25 *)
(* the representable values are the even integers and a tie goes to the    *)
(* even mantissa, i.e. to the multiple of 4.                               *)
(***************************************************************************)
Abs(x) == IF x < 0 THEN -x ELSE x

Sign(x) == IF x < 0 THEN -1 ELSE 1

ToFloat32(x) ==
  LET a == Abs(x)
      r == IF a <= 16777216 THEN a
           ELSE IF a % 2 = 0 THEN a
           ELSE IF (a + 1) % 4 = 0 THEN a + 1 ELSE a - 1
  IN Sign(x) * r

Float32Array(v) == [i \in 1..Len(v) |-> ToFloat32(v[i])]

(***************************************************************************)
(* Cosine distance 1 - a.b / (|a| |b|) of the normalised vectors.  The     *)
(* value is carried exactly as the fraction <<n, d>> = cos^2 (components   *)
(* are non-negative, so cos >= 0): a smaller distance is a larger cos^2.   *)
(* A zero vector is left unnormalised and has distance 1 to everything.    *)
(***************************************************************************)
RECURSIVE DotFrom(_, _, _)
DotFrom(a, b, i) ==
  IF i > Len(a) THEN 0 ELSE a[i] * b[i] + DotFrom(a, b, i + 1)

Dot(a, b) == DotFrom(a, b, 1)

CosineDistance(a, b) ==
  LET na == Dot(a, a)
      nb == Dot(b, b)
      ab == Dot(a, b)
  IN IF na = 0 \/ nb = 0 THEN <<0, 1>> ELSE <<ab * ab, na * nb>>

DistLess(d1, d2) == d1[1] * d2[2] > d2[1] * d1[2]

DistLeq(d1, d2) == d1[1] * d2[2] >= d2[1] * d1[2]

DistZero(d) == d[1] = d[2]

(***************************************************************************)
(* A JavaScript Map: a sequence of <<key, value>> pairs in insertion       *)
(* order.  set on a present key replaces the value in place.               *)
(***************************************************************************)
MapKeys(map) == {map[i][1] : i \in 1..Len(map)}

MapHas(map, key) == key \in MapKeys(map)

MapPos(map, key) == CHOOSE i \in 1..Len(map) : map[i][1] = key

MapGet(map, key) == map[MapPos(map, key)][2]

MapSet(map, key, value) ==
  IF MapHas(map, key)
  THEN [map EXCEPT ![MapPos(map, key)] = <<key, value>>]
  ELSE Append(map, <<key, value>>)

MapDelete(map, key) ==
  IF MapHas(map, key)
  THEN LET p == MapPos(map, key)
       IN [i \in 1..(Len(map) - 1) |-> IF i < p THEN map[i] ELSE map[i + 1]]
  ELSE map

(***************************************************************************)
(* HierarchicalNSW('cosine', dim) after initIndex(maxElements, ...):       *)
(* points is the label -> vector table in insertion order.                 *)
(***************************************************************************)
NewIndex(dim, capacity) ==
  [dim |-> dim, maxElements |-> capacity, points |-> <<>>]

IndexLabels(ix) == MapKeys(ix.points)

\* index.addPoint(vector, label)
AddPoint(ix, vec, label) ==
  IF Len(vec) # ix.dim
  THEN [status |-> "throw", value |-> "InvalidArrayLength", index |-> ix]
  ELSE IF ~MapHas(ix.points, label) /\ Len(ix.points) >= ix.maxElements
  THEN [status |-> "throw", value |-> "ExceedsLimit", index |-> ix]
  ELSE [status |-> "ok", value |-> label,
        index |-> [ix EXCEPT !.points = MapSet(ix.points, label, vec)]]

\* The order of a result turned round: the farther point first.
CloserFartherFirst(ix, q, p, r) ==
  LET dp == CosineDistance(ix.points[p][2], q)
      dr == CosineDistance(ix.points[r][2], q)
  IN DistLess(dr, dp) \/ (DistLeq(dr, dp) /\ ix.points[p][1] > ix.points[r][1])

\* The point at position p comes before the one at r in a result: it is
\* nearer, or as near and of the smaller label.
Closer(ix, q, p, r) ==
  LET dp == CosineDistance(ix.points[p][2], q)
      dr == CosineDistance(ix.points[r][2], q)
  IN DistLess(dp, dr) \/ (DistLeq(dp, dr) /\ ix.points[p][1] < ix.points[r][1])

\* The sets of positions searchKnn may keep: min(k, count) points none of
\* which is farther than a point left out.
NearestSets(ix, q, k) ==
  IF Len(q) # ix.dim THEN {{}}
  ELSE LET all == 1..Len(ix.points)
           size == IF k <= Len(ix.points) THEN k ELSE Len(ix.points)
       IN {kept \in SUBSET all :
             /\ Cardinality(kept) = size
             /\ \A p \in kept, r \in all \ kept :
                  DistLeq(CosineDistance(ix.points[p][2], q),
                          CosineDistance(ix.points[r][2], q))}

RECURSIVE Nearest(_, _, _, _)
Nearest(ix, q, rest, k) ==
  IF k = 0 \/ rest = {} THEN <<>>
  ELSE LET best == CHOOSE p \in rest : \A r \in rest \ {p} : Closer(ix, q, p, r)
       IN <<best>> \o Nearest(ix, q, rest \ {best}, k - 1)

\* index.searchKnn(query, k): { neighbors, distances }, keeping kept
SearchKnn(ix, q, k, kept) ==
  IF Len(q) # ix.dim
  THEN [status |-> "throw", value |-> "InvalidArrayLength"]
  ELSE IF k > ix.maxElements \/ k < 1
  THEN [status |-> "throw", value |-> "InvalidK"]
  ELSE LET order == Nearest(ix, q, kept, k)
       IN [status |-> "ok",
           value |-> [neighbors |-> [i \in 1..Len(order) |-> ix.points[order[i]][1]],
                      distances |-> [i \in 1..Len(order) |->
                                       CosineDistance(ix.points[order[i]][2], q)]]]

\* this.emit(type, payload) on instance t: the notification, with the
\* instance as a listener finds it during the synchronous delivery.
Emit(t, type, payload) == [type |-> type, payload |-> payload, seen |-> t]

(***************************************************************************)
(* The AgentDB instance.  An operation takes the instance t (a record of   *)
(* its fields) and yields the instance afterwards, the notifications       *)
(* emitted, and the value returned (status "ok") or error thrown           *)
(* (status "throw").                                                       *)
(***************************************************************************)
Outcome(t, events, status, value) ==
  [this |-> t, events |-> events, status |-> status, value |-> value]

\* new AgentDB(options)
Construct(dim, capacity) ==
  [dimension |-> dim,
   maxElements |-> capacity,
   m |-> DefaultM,
   efConstruction |-> DefaultEfConstruction,
   efSearch |-> DefaultEfSearch,
   index |-> NewIndex(dim, capacity),
   memoryStore |-> <<>>,
   currentId |-> 0,
   reasoningBank |-> <<>>]

\* addVector that reads currentId without advancing it.
AddVectorOpKeepsCounter(t, vector, metadata, clock) ==
  LET id == t.currentId
      vectorArray == Float32Array(vector)
  IN IF Len(vectorArray) # t.dimension
     THEN Outcome(t, <<>>, "throw", "DimensionMismatch")
     ELSE LET added == AddPoint(t.index, vectorArray, id)
          IN IF added.status = "throw"
             THEN Outcome(t, <<>>, "throw", added.value)
             ELSE LET t2 == [t EXCEPT !.index = added.index,
                                      !.memoryStore =
                                        MapSet(t.memoryStore, id,
                                               [vector |-> vectorArray,
                                                metadata |-> metadata,
                                                timestamp |-> clock,
                                                id |-> id])]
                  IN Outcome(t2,
                             <<Emit(t2, "vectorAdded",
                                    [id |-> id, metadata |-> metadata])>>,
                             "ok", id)

\* addVector that writes the record before it calls index.addPoint.
AddVectorOpStoresFirst(t, vector, metadata, clock) ==
  LET id == t.currentId
      t1 == [t EXCEPT !.currentId = id + 1]
      vectorArray == Float32Array(vector)
  IN IF Len(vectorArray) # t.dimension
     THEN Outcome(t1, <<>>, "throw", "DimensionMismatch")
     ELSE LET stored == [t1 EXCEPT !.memoryStore =
                           MapSet(t1.memoryStore, id,
                                  [vector |-> vectorArray,
                                   metadata |-> metadata,
                                   timestamp |-> clock,
                                   id |-> id])]
              added == AddPoint(t1.index, vectorArray, id)
          IN IF added.status = "throw"
             THEN Outcome(stored, <<>>, "throw", added.value)
             ELSE LET t2 == [stored EXCEPT !.index = added.index]
                  IN Outcome(t2,
                             <<Emit(t2, "vectorAdded",
                                    [id |-> id, metadata |-> metadata])>>,
                             "ok", id)

\* addVector(vector, metadata), Date.now() reading clock
AddVectorOp(t, vector, metadata, clock) ==
  LET id == t.currentId
      t1 == [t EXCEPT !.currentId = id + 1]
      vectorArray == Float32Array(vector)
  IN IF Len(vectorArray) # t.dimension
     THEN Outcome(t1, <<>>, "throw", "DimensionMismatch")
     ELSE LET added == AddPoint(t1.index, vectorArray, id)
          IN IF added.status = "throw"
             THEN Outcome(t1, <<>>, "throw", added.value)
             ELSE LET t2 == [t1 EXCEPT !.index = added.index,
                                       !.memoryStore =
                                         MapSet(t1.memoryStore, id,
                                                [vector |-> vectorArray,
                                                 metadata |-> metadata,
                                                 timestamp |-> clock,
                                                 id |-> id])]
                  IN Outcome(t2,
                             <<Emit(t2, "vectorAdded",
                                    [id |-> id, metadata |-> metadata])>>,
                             "ok", id)

\* One search result: { id, distance, ...this.memoryStore.get(id) }
Hydrate(t, id, distance) ==
  IF MapHas(t.memoryStore, id)
  THEN LET e == MapGet(t.memoryStore, id)
       IN [id |-> e.id, distance |-> distance, vector |-> e.vector,
           metadata |-> e.metadata, timestamp |-> e.timestamp]
  ELSE [id |-> id, distance |-> distance]

\* search without its length test: the query goes straight to the index.
SearchOpUnchecked(t, query, k, kept) ==
  LET result == SearchKnn(t.index, Float32Array(query), k, kept)
  IN IF result.status = "throw"
     THEN Outcome(t, <<>>, "throw", result.value)
     ELSE Outcome(t, <<>>, "ok",
                  [i \in 1..Len(result.value.neighbors) |->
                     Hydrate(t, result.value.neighbors[i],
                             result.value.distances[i])])

\* search(query, k), the index keeping kept
SearchOp(t, query, k, kept) ==
  LET queryArray == Float32Array(query)
  IN IF Len(queryArray) # t.dimension
     THEN Outcome(t, <<>>, "throw", "DimensionMismatch")
     ELSE LET result == SearchKnn(t.index, queryArray, k, kept)
          IN IF result.status = "throw"
             THEN Outcome(t, <<>>, "throw", result.value)
             ELSE Outcome(t, <<>>, "ok",
                          [i \in 1..Len(result.value.neighbors) |->
                             Hydrate(t, result.value.neighbors[i],
                                     result.value.distances[i])])

\* Every outcome search(query, k) may have.
SearchOutcomes(t, query, k) ==
  {SearchOp(t, query, k, kept) :
     kept \in NearestSets(t.index, Float32Array(query), k)}

\* deleteVector that hands the id of the newest record back to the counter.
DeleteVectorOpReusesId(t, id) ==
  IF MapHas(t.memoryStore, id)
  THEN LET t1 == [t EXCEPT !.memoryStore = MapDelete(t.memoryStore, id),
                           !.currentId = IF id = t.currentId - 1 THEN id ELSE @]
       IN Outcome(t1, <<Emit(t1, "vectorDeleted", [id |-> id])>>, "ok", TRUE)
  ELSE Outcome(t, <<>>, "ok", FALSE)

\* deleteVector without the has(id) test.
DeleteVectorOpUnchecked(t, id) ==
  LET t1 == [t EXCEPT !.memoryStore = MapDelete(t.memoryStore, id)]
  IN Outcome(t1, <<Emit(t1, "vectorDeleted", [id |-> id])>>, "ok", TRUE)

\* deleteVector(id)
DeleteVectorOp(t, id) ==
  IF MapHas(t.memoryStore, id)
  THEN LET t1 == [t EXCEPT !.memoryStore = MapDelete(t.memoryStore, id)]
       IN Outcome(t1, <<Emit(t1, "vectorDeleted", [id |-> id])>>, "ok", TRUE)
  ELSE Outcome(t, <<>>, "ok", FALSE)

\* The spread written the other way round, { ...new, ...old }.
SpreadOldWins(old, new) ==
  [key \in DOMAIN old \cup DOMAIN new |->
     IF key \in DOMAIN old THEN old[key] ELSE new[key]]

\* { ...old, ...new }
Spread(old, new) ==
  [key \in DOMAIN old \cup DOMAIN new |->
     IF key \in DOMAIN new THEN new[key] ELSE old[key]]

\* updateMetadata that emits and returns true outside the if (entry) block.
UpdateMetadataOpUnguarded(t, id, metadata) ==
  LET merged == IF MapHas(t.memoryStore, id)
                THEN MapSet(t.memoryStore, id,
                            [MapGet(t.memoryStore, id) EXCEPT
                               !.metadata = Spread(@, metadata)])
                ELSE t.memoryStore
      t1 == [t EXCEPT !.memoryStore = merged]
  IN Outcome(t1,
             <<Emit(t1, "metadataUpdated", [id |-> id, metadata |-> metadata])>>,
             "ok", TRUE)

\* updateMetadata(id, metadata)
UpdateMetadataOp(t, id, metadata) ==
  IF MapHas(t.memoryStore, id)
  THEN LET entry == MapGet(t.memoryStore, id)
           merged == [entry EXCEPT !.metadata = Spread(entry.metadata, metadata)]
           t1 == [t EXCEPT !.memoryStore = MapSet(t.memoryStore, id, merged)]
       IN Outcome(t1,
                  <<Emit(t1, "metadataUpdated",
                         [id |-> id, metadata |-> metadata])>>,
                  "ok", TRUE)
  ELSE Outcome(t, <<>>, "ok", FALSE)

\* clear() with its emit moved before the reset of currentId.
ClearOpEmitsBeforeReset(t) ==
  LET t1 == [t EXCEPT !.index = NewIndex(t.dimension, t.maxElements)]
      t2 == [t1 EXCEPT !.memoryStore = <<>>]
      t3 == [t2 EXCEPT !.reasoningBank = <<>>]
      t4 == [t3 EXCEPT !.currentId = 0]
  IN Outcome(t4, <<Emit(t3, "cleared", <<>>)>>, "ok", "undefined")

\* clear()
ClearOp(t) ==
  LET t1 == [t EXCEPT !.index = NewIndex(t.dimension, t.maxElements)]
      t2 == [t1 EXCEPT !.memoryStore = <<>>]
      t3 == [t2 EXCEPT !.reasoningBank = <<>>]
      t4 == [t3 EXCEPT !.currentId = 0]
  IN Outcome(t4, <<Emit(t4, "cleared", <<>>)>>, "ok", "undefined")

\* addReasoning(context, reasoning, metadata): the id is built from Date.now()
\* and a Math.random() suffix, here the pair <<clock, random>>.
AddReasoningOp(t, context, reasoning, metadata, clock, random) ==
  LET id == <<clock, random>>
      t1 == [t EXCEPT !.reasoningBank =
               MapSet(t.reasoningBank, id,
                      [context |-> context, reasoning |-> reasoning,
                       metadata |-> metadata, timestamp |-> clock])]
  IN Outcome(t1,
             <<Emit(t1, "reasoningAdded", [id |-> id, context |-> context])>>,
             "ok", id)

\* getStats that counts the points of the index instead of the records.
GetStatsOpCountsIndex(t) ==
  Outcome(t, <<>>, "ok",
          [totalVectors |-> Len(t.index.points),
           totalReasoning |-> Len(t.reasoningBank),
           dimension |-> t.dimension,
           maxElements |-> t.maxElements])

\* getStats(), without process.memoryUsage()
GetStatsOp(t) ==
  Outcome(t, <<>>, "ok",
          [totalVectors |-> Len(t.memoryStore),
           totalReasoning |-> Len(t.reasoningBank),
           dimension |-> t.dimension,
           maxElements |-> t.maxElements])

\* export(); Array.from(Float32Array) keeps every binary32 value exactly
ExportOp(t) ==
  Outcome(t, <<>>, "ok",
          [memoryStore |->
             [i \in 1..Len(t.memoryStore) |->
                [id |-> t.memoryStore[i][1],
                 vector |-> t.memoryStore[i][2].vector,
                 metadata |-> t.memoryStore[i][2].metadata,
                 timestamp |-> t.memoryStore[i][2].timestamp]],
           reasoningBank |-> t.reasoningBank,
           currentId |-> t.currentId,
           config |-> [dimension |-> t.dimension,
                       maxElements |-> t.maxElements,
                       m |-> t.m,
                       efConstruction |-> t.efConstruction,
                       efSearch |-> t.efSearch]])

\* A field of a snapshot is truthy: present (and, for the number, not 0).
Has(data, field) == field \in DOMAIN data

\* The loop of import over data.memoryStore from entry i on; a throwing
\* addVector ends it, and the call, with what was done so far.
RECURSIVE ImportEntries(_, _, _, _, _)
ImportEntries(t, entries, i, clock, events) ==
  IF i > Len(entries) THEN Outcome(t, events, "ok", "undefined")
  ELSE LET added == AddVectorOp(t, Float32Array(entries[i].vector),
                                entries[i].metadata, clock)
       IN IF added.status = "throw"
          THEN Outcome(added.this, events \o added.events, "throw", added.value)
          ELSE ImportEntries(added.this, entries, i + 1, clock,
                             events \o added.events)

\* import(data)
ImportOp(t, data, clock) ==
  LET cleared == ClearOp(t)
      t1 == IF Has(data, "config")
            THEN [cleared.this EXCEPT !.dimension = data.config.dimension,
                                      !.maxElements = data.config.maxElements]
            ELSE cleared.this
      loaded == IF Has(data, "memoryStore")
                THEN ImportEntries(t1, data.memoryStore, 1, clock, cleared.events)
                ELSE Outcome(t1, cleared.events, "ok", "undefined")
  IN IF loaded.status = "throw" THEN loaded
     ELSE LET t2 == IF Has(data, "reasoningBank")
                    THEN [loaded.this EXCEPT !.reasoningBank = data.reasoningBank]
                    ELSE loaded.this
              t3 == IF Has(data, "currentId") /\ data.currentId # 0
                    THEN [t2 EXCEPT !.currentId = data.currentId]
                    ELSE t2
          IN Outcome(t3,
                     Append(loaded.events,
                            Emit(t3, "imported",
                                 [vectors |-> Len(t3.memoryStore),
                                  reasoning |-> Len(t3.reasoningBank)])),
                     "ok", "undefined")

(***************************************************************************)
(* State: the fields of the instance, the wall clock, the snapshot the     *)
(* client holds (<<>> or <<snapshot>>), the last call's notifications and  *)
(* outcome, a history variable: the ids for which deleteVector has         *)
(* returned true since the last clear() or import(), the notification      *)
(* types for which the EventEmitter holds a listener, and those a listener *)
(* has been called with.                                                   *)
(***************************************************************************)
VARIABLES dimension, maxElements, m, efConstruction, efSearch, index,
          memoryStore, currentId, reasoningBank, now, saved, emitted, ret,
          deleted, listeners, heard

fields == <<dimension, maxElements, m, efConstruction, efSearch, index,
            memoryStore, currentId, reasoningBank>>

(***************************************************************************)
(* The trading server (src/unnamed/part_004), a program of its own: the    *)
(* markets and their price history, the number of updatePrices runs so     *)
(* far (a history variable), the accounts by user id, the open WebSocket   *)
(* connections (wss.clients, each with its userId and subscribedPair), the *)
(* event the server handled last (<<>> or <<event>>) and the messages it   *)
(* sent while handling it.  Market prices are in thousandths of a dollar,  *)
(* trade prices and balances in dollars.                                   *)
(***************************************************************************)
VARIABLES markets, priceHistory, updates, users, clients, handled, sent

serverVars == <<markets, priceHistory, updates, users, clients, handled, sent>>

\* Two of the six demo markets.
Pairs == {"BTC/USD", "ETH/USD"}
StartPrice == [pair \in Pairs |-> IF pair = "BTC/USD" THEN 45000000 ELSE 2800000]
Volatility == [pair \in Pairs |-> IF pair = "BTC/USD" THEN 50000 ELSE 30000]

\* The module's top-level statements, before any timer or connection.
InitServer ==
  /\ markets = [pair \in Pairs |-> [price |-> StartPrice[pair], change |-> <<0, 1>>]]
  /\ priceHistory = [pair \in Pairs |-> <<StartPrice[pair]>>]
  /\ updates = 0
  /\ users = <<>>
  /\ clients = <<>>
  /\ handled = <<>>
  /\ sent = <<>>

vars == <<dimension, maxElements, m, efConstruction, efSearch, index,
          memoryStore, currentId, reasoningBank, now, saved, emitted, ret,
          deleted, listeners, heard, serverVars>>

this ==
  [dimension |-> dimension, maxElements |-> maxElements, m |-> m,
   efConstruction |-> efConstruction, efSearch |-> efSearch, index |-> index,
   memoryStore |-> memoryStore, currentId |-> currentId,
   reasoningBank |-> reasoningBank]

\* The call op(arg) ran to outcome r.
Becomes(op, arg, r) ==
  /\ dimension' = r.this.dimension
  /\ maxElements' = r.this.maxElements
  /\ m' = r.this.m
  /\ efConstruction' = r.this.efConstruction
  /\ efSearch' = r.this.efSearch
  /\ index' = r.this.index
  /\ memoryStore' = r.this.memoryStore
  /\ currentId' = r.this.currentId
  /\ reasoningBank' = r.this.reasoningBank
  /\ emitted' = r.events
  /\ ret' = [op |-> op, arg |-> arg, status |-> r.status, value |-> r.value]
  /\ listeners' = listeners
  /\ heard' = heard \cup ({r.events[i].type : i \in 1..Len(r.events)}
                           \cap listeners)
  /\ UNCHANGED serverVars

Init ==
  /\ dimension = OptDimension
  /\ maxElements = OptMaxElements
  /\ m = DefaultM
  /\ efConstruction = DefaultEfConstruction
  /\ efSearch = DefaultEfSearch
  /\ index = NewIndex(OptDimension, OptMaxElements)
  /\ memoryStore = <<>>
  /\ currentId = 0
  /\ reasoningBank = <<>>
  /\ now = 0
  /\ saved = <<>>
  /\ emitted = <<Emit(Construct(OptDimension, OptMaxElements), "initialized",
                       [dimension |-> OptDimension,
                        maxElements |-> OptMaxElements])>>
  /\ ret = [op |-> "constructor", arg |-> <<>>, status |-> "ok",
            value |-> "undefined"]
  /\ deleted = {}
  /\ listeners = {}
  /\ heard = {}
  /\ InitServer

(***************************************************************************)
(* Inputs of the calls.                                                    *)
(***************************************************************************)
Contexts == {<<"A", "b">>}
Reasonings == {<<"b", "C">>}
Queries == {<<1, 0>>, <<0, 1>>, ShortVector}

Without(data, field) == [f \in DOMAIN data \ {field} |-> data[f]]

\* A snapshot exported by an instance of another dimension.
ForeignSnapshot ==
  ExportOp(AddVectorOp(Construct(Len(LongVector), OptMaxElements),
                       LongVector, NoMetadata, 0).this).value

\* A snapshot exported by another instance of the same configuration after
\* two adds and the deletion of the first.
PeerSnapshot ==
  LET a == AddVectorOp(Construct(OptDimension, OptMaxElements),
                       <<1, 1>>, MetaA1C1, 0).this
      b == AddVectorOp(a, <<1, 0>>, NoMetadata, 0).this
  IN ExportOp(DeleteVectorOp(b, 0).this).value

\* What the client may hand to import: the snapshot it holds, that snapshot
\* without its memoryStore field or with its last vector cut short, and the
\* two above.
Snapshots ==
  {ForeignSnapshot, PeerSnapshot}
  \cup {saved[i] : i \in 1..Len(saved)}
  \cup {Without(saved[i], "memoryStore") : i \in 1..Len(saved)}
  \cup {[saved[i] EXCEPT !.memoryStore =
           [j \in 1..Len(@) |-> IF j = Len(@) THEN [@[j] EXCEPT !.vector = ShortVector]
                                ELSE @[j]]] :
          i \in 1..Len(saved)}

(***************************************************************************)
(* The calls.                                                              *)
(***************************************************************************)
AddVector ==
  /\ currentId < MaxAdds
  /\ \E vector \in Vectors, metadata \in AddMetadata :
       Becomes("addVector", [vector |-> vector, metadata |-> metadata],
               AddVectorOp(this, vector, metadata, now))
  /\ saved' = <<>>
  /\ UNCHANGED <<now, deleted>>

Search ==
  /\ \E query \in Queries, k \in 1..MaxK :
       \E r \in SearchOutcomes(this, query, k) :
         Becomes("search", [query |-> query, k |-> k], r)
  /\ saved' = <<>>
  /\ UNCHANGED <<now, deleted>>

DeleteVector ==
  /\ \E id \in Ids :
       /\ Becomes("deleteVector", [id |-> id], DeleteVectorOp(this, id))
       /\ deleted' = IF DeleteVectorOp(this, id).value THEN deleted \cup {id}
                     ELSE deleted
  /\ saved' = <<>>
  /\ UNCHANGED now

UpdateMetadata ==
  /\ \E id \in Ids, metadata \in UpdateMetadataArgs :
       Becomes("updateMetadata", [id |-> id, metadata |-> metadata],
               UpdateMetadataOp(this, id, metadata))
  /\ saved' = <<>>
  /\ UNCHANGED <<now, deleted>>

AddReasoning ==
  /\ Len(reasoningBank) < MaxReasoning
  /\ \E context \in Contexts, reasoning \in Reasonings, random \in RandomSuffixes :
       Becomes("addReasoning",
               [context |-> context, reasoning |-> reasoning,
                metadata |-> NoMetadata],
               AddReasoningOp(this, context, reasoning, NoMetadata, now, random))
  /\ saved' = <<>>
  /\ UNCHANGED <<now, deleted>>

GetStats ==
  /\ Becomes("getStats", <<>>, GetStatsOp(this))
  /\ saved' = <<>>
  /\ UNCHANGED <<now, deleted>>

Clear ==
  /\ Becomes("clear", <<>>, ClearOp(this))
  /\ deleted' = {}
  /\ UNCHANGED <<now, saved>>

Export ==
  /\ Becomes("export", <<>>, ExportOp(this))
  /\ saved' = <<ExportOp(this).value>>
  /\ UNCHANGED <<now, deleted>>

Import ==
  /\ \E data \in Snapshots :
       Becomes("import", [data |-> data], ImportOp(this, data, now))
  /\ deleted' = {}
  /\ UNCHANGED <<now, saved>>

\* Time passes between calls.
Tick ==
  /\ now + 1 \in ClockValues
  /\ now' = now + 1
  /\ UNCHANGED <<fields, saved, emitted, ret, deleted, listeners, heard,
                 serverVars>>

Next ==
  \/ AddVector
  \/ Search
  \/ DeleteVector
  \/ UpdateMetadata
  \/ AddReasoning
  \/ GetStats
  \/ Clear
  \/ Export
  \/ Import
  \/ Tick

Spec == Init /\ [][Next]_vars

(***************************************************************************)
(* Properties.                                                             *)
(***************************************************************************)
\* The step is a call of op (Tick is the only step that moves the clock).
Called(op) == now' = now /\ ret'.op = op

\* The ids of the results of a successful search.
ResultIds(results) == [i \in 1..Len(results) |-> results[i].id]

\* C1: addVector with a vector whose length is not the configured dimension
\* throws the dimension-mismatch error and leaves currentId, the memoryStore,
\* the index and the reasoningBank as they were.
C1_RejectedAddVectorLeavesState ==
  [][(Called("addVector") /\ Len(ret'.arg.vector) # dimension)
       => /\ ret'.status = "throw"
          /\ ret'.value = "DimensionMismatch"
          /\ UNCHANGED <<currentId, memoryStore, index, reasoningBank>>]_vars

\* C2: no search returns an id for which deleteVector has returned true since
\* the last clear() or import().
C2_SearchNeverReturnsDeleted ==
  (ret.op = "search" /\ ret.status = "ok")
    => \A i \in 1..Len(ret.value) : ret.value[i].id \notin deleted

\* C3: every id held by the index is a key of the memoryStore.
C3_IndexedIdsHaveRecords ==
  IndexLabels(index) \subseteq MapKeys(memoryStore)

\* What search(query, k) may yield on instance t: the ids in order, or the
\* error.
SearchIds(t, query, k) ==
  {IF r.status = "ok" THEN ResultIds(r.value) ELSE <<r.value>> :
     r \in SearchOutcomes(t, query, k)}

\* The instance after s = export(), clear(), import(s).
RoundTrip(t, clock) ==
  ImportOp(ClearOp(t).this, ExportOp(t).value, clock).this

\* C4: after s = export(), clear(), import(s) every search that succeeded
\* before the export returns the same ids in the same order.
C4_RoundTripKeepsSearchResults ==
  \A query \in Queries, k \in 1..MaxK :
    (\A r \in SearchOutcomes(this, query, k) : r.status = "ok")
      => SearchIds(RoundTrip(this, now), query, k) = SearchIds(this, query, k)

\* A snapshot import must refuse: a field is missing, or the configured
\* dimension or the length of a vector is not the dimension of the instance.
Malformed(data) ==
  \/ \E f \in {"memoryStore", "reasoningBank", "currentId", "config"} :
       ~Has(data, f)
  \/ Has(data, "config") /\ data.config.dimension # dimension
  \/ Has(data, "memoryStore")
       /\ \E i \in 1..Len(data.memoryStore) :
            Len(data.memoryStore[i].vector) # dimension

\* C5: import of a malformed snapshot fails and leaves every field of the
\* instance as it was.
C5_MalformedImportLeavesState ==
  [][(Called("import") /\ Malformed(ret'.arg.data))
       => (ret'.status = "throw" /\ UNCHANGED fields)]_vars

\* C6: addVector with a vector of the configured dimension succeeds, however
\* many vectors were added before.
C6_AddVectorNeverFailsOnCount ==
  [][(Called("addVector") /\ Len(ret'.arg.vector) = dimension)
       => ret'.status = "ok"]_vars

\* C7: deleteVector(id) returns true exactly when id is a key of the
\* memoryStore, and then removes that record and nothing else, emitting one
\* vectorDeleted; on an absent id it returns false, changes no field and emits
\* nothing. Either way the id is absent afterwards, so a second call returns
\* false.
C7_DeleteVectorReportsPresence ==
  [][Called("deleteVector")
       => LET id == ret'.arg.id
              present == id \in MapKeys(memoryStore)
          IN /\ ret'.status = "ok"
             /\ ret'.value = present
             /\ id \notin MapKeys(memoryStore')
             /\ present =>
                  /\ MapKeys(memoryStore') = MapKeys(memoryStore) \ {id}
                  /\ \A other \in MapKeys(memoryStore') :
                       MapGet(memoryStore', other) = MapGet(memoryStore, other)
                  /\ Len(emitted') = 1
                  /\ emitted'[1].type = "vectorDeleted"
                  /\ emitted'[1].payload = [id |-> id]
                  /\ UNCHANGED <<currentId, reasoningBank, dimension>>
             /\ ~present => (UNCHANGED fields /\ emitted' = <<>>)]_vars

\* A second deleteVector on an id deleted before has returned false.
C7_SecondDeleteReturnedFalse ==
  /\ ret.op = "deleteVector"
  /\ ret.arg.id \in deleted
  /\ ret.value = FALSE
  /\ emitted = <<>>

\* C8: updateMetadata(id, partial) on a present record is a shallow merge:
\* the keys afterwards are the old keys and partial's, every key of partial
\* has partial's value and every other key keeps its old value.
C8_UpdateMetadataMergesShallowly ==
  [][(Called("updateMetadata") /\ ret'.arg.id \in MapKeys(memoryStore))
       => LET id == ret'.arg.id
              partial == ret'.arg.metadata
              old == MapGet(memoryStore, id).metadata
          IN /\ ret'.value = TRUE
             /\ id \in MapKeys(memoryStore')
             /\ LET new == MapGet(memoryStore', id).metadata
                IN /\ DOMAIN new = DOMAIN old \cup DOMAIN partial
                   /\ \A key \in DOMAIN partial : new[key] = partial[key]
                   /\ \A key \in DOMAIN old \ DOMAIN partial :
                        new[key] = old[key]]_vars

\* An update has overwritten a, added b and kept c.
C8_MergedOverwriteAddKeep ==
  /\ ret.op = "updateMetadata"
  /\ ret.value = TRUE
  /\ ret.arg.metadata = MetaA2B2
  /\ MapHas(memoryStore, ret.arg.id)
  /\ MapGet(memoryStore, ret.arg.id).metadata =
       [key \in {"a", "b", "c"} |-> IF key = "c" THEN 1 ELSE 2]

\* C9: updateMetadata on an id that is not a key of the memoryStore returns
\* false without throwing, creates no record, changes no field and emits
\* nothing.
C9_UpdateMetadataOfAbsentIsNoOp ==
  [][(Called("updateMetadata") /\ ret'.arg.id \notin MapKeys(memoryStore))
       => /\ ret'.status = "ok"
          /\ ret'.value = FALSE
          /\ ret'.arg.id \notin MapKeys(memoryStore')
          /\ UNCHANGED fields
          /\ emitted' = <<>>]_vars

\* updateMetadata has been refused for a deleted id, other records present.
C9_UpdateOfDeletedRefused ==
  /\ ret.op = "updateMetadata"
  /\ ret.arg.id \in deleted
  /\ ret.value = FALSE
  /\ memoryStore # <<>>

Min(a, b) == IF a <= b THEN a ELSE b

\* C10: search(query, k) with a query of the configured dimension returns
\* min(k, number of live records) results, nearest first.
C10_SearchReturnsMinKLiveAscending ==
  (ret.op = "search" /\ Len(ret.arg.query) = dimension)
    => /\ ret.status = "ok"
       /\ Len(ret.value) = Min(ret.arg.k, Len(memoryStore))
       /\ \A i \in 1..(Len(ret.value) - 1) :
            DistLeq(ret.value[i].distance, ret.value[i + 1].distance)

\* C11: search(v, k) with k >= 1, issued right after id = addVector(v) has
\* returned, yields id as its first result, at distance 0, whatever was added
\* or deleted before.
C11_SearchAfterAddReturnsItFirst ==
  [][(/\ ret.op = "addVector"
      /\ ret.status = "ok"
      /\ Called("search")
      /\ ret'.arg.query = ret.arg.vector)
       => /\ ret'.status = "ok"
          /\ Len(ret'.value) >= 1
          /\ ret'.value[1].id = ret.value
          /\ DistZero(ret'.value[1].distance)]_vars

(***************************************************************************)
(* The three-vector scenario: a fresh instance of dimension 4 and the      *)
(* vectors [1,0,0,0], [0,1,0,0] and [0.9,0.1,0,0].  Cosine distance does   *)
(* not change when a vector is scaled, so the components are carried in    *)
(* tenths; the binary32 roundings of 0.9 and 0.1 move the distance of the  *)
(* third vector to the first (about 0.006) by far less than its gap to the *)
(* distances 0 and 1 of the other two.                                     *)
(***************************************************************************)
ScenarioDimension == 4
ScenarioMaxElements == 3
ScenarioV1 == <<10, 0, 0, 0>>
ScenarioV2 == <<0, 10, 0, 0>>
ScenarioV3 == <<9, 1, 0, 0>>
ScenarioVectors == {ScenarioV1, ScenarioV2, ScenarioV3}

InitScenario ==
  /\ dimension = ScenarioDimension
  /\ maxElements = ScenarioMaxElements
  /\ m = DefaultM
  /\ efConstruction = DefaultEfConstruction
  /\ efSearch = DefaultEfSearch
  /\ index = NewIndex(ScenarioDimension, ScenarioMaxElements)
  /\ memoryStore = <<>>
  /\ currentId = 0
  /\ reasoningBank = <<>>
  /\ now = 0
  /\ saved = <<>>
  /\ emitted = <<Emit(Construct(ScenarioDimension, ScenarioMaxElements),
                       "initialized",
                       [dimension |-> ScenarioDimension,
                        maxElements |-> ScenarioMaxElements])>>
  /\ ret = [op |-> "constructor", arg |-> <<>>, status |-> "ok",
            value |-> "undefined"]
  /\ deleted = {}
  /\ listeners = {}
  /\ heard = {}
  /\ InitServer

ScenarioAddVector ==
  /\ currentId < ScenarioMaxElements
  /\ \E vector \in ScenarioVectors :
       Becomes("addVector", [vector |-> vector, metadata |-> NoMetadata],
               AddVectorOp(this, vector, NoMetadata, now))
  /\ UNCHANGED <<now, saved, deleted>>

ScenarioSearch ==
  /\ \E query \in ScenarioVectors, k \in 1..ScenarioMaxElements :
       \E r \in SearchOutcomes(this, query, k) :
         Becomes("search", [query |-> query, k |-> k], r)
  /\ UNCHANGED <<now, saved, deleted>>

NextScenario ==
  \/ ScenarioAddVector
  \/ ScenarioSearch
  \/ Tick

SpecScenario == InitScenario /\ [][NextScenario]_vars

\* The vectors of the records, in the order of their insertion.
StoredVectors == [i \in 1..Len(memoryStore) |-> memoryStore[i][2].vector]

\* C12: on a fresh store of dimension 4 the adds of [1,0,0,0], [0,1,0,0] and
\* [0.9,0.1,0,0] in that order return the ids 0, 1 and 2, and
\* search([1,0,0,0], 2) then returns the result for id 0 followed by the one
\* for id 2.
C12_ScenarioReturnsId0ThenId2 ==
  /\ \A i \in 1..Len(memoryStore) : memoryStore[i][1] = i - 1
  /\ (ret.op = "addVector" /\ ret.status = "ok")
       => ret.value = Len(memoryStore) - 1
  /\ (/\ StoredVectors = <<ScenarioV1, ScenarioV2, ScenarioV3>>
      /\ ret.op = "search"
      /\ ret.arg = [query |-> ScenarioV1, k |-> 2])
       => /\ ret.status = "ok"
          /\ ResultIds(ret.value) = <<0, 2>>
          /\ \A i \in 1..2 :
               ret.value[i].vector = StoredVectors[ret.value[i].id + 1]

C12_ScenarioSearched ==
  /\ StoredVectors = <<ScenarioV1, ScenarioV2, ScenarioV3>>
  /\ MapKeys(memoryStore) = {0, 1, 2}
  /\ ret.op = "search"
  /\ ret.arg = [query |-> ScenarioV1, k |-> 2]
  /\ Len(ret.value) = 2

\* C13: search(query, k) with a query whose length is not the configured
\* dimension throws the dimension-mismatch error, returns no results, emits
\* nothing and changes no field of the instance.
C13_SearchRejectsWrongLength ==
  [][(Called("search") /\ Len(ret'.arg.query) # dimension)
       => /\ ret'.status = "throw"
          /\ ret'.value = "DimensionMismatch"
          /\ emitted' = <<>>
          /\ UNCHANGED fields]_vars

C13_WrongLengthQueryRejected ==
  /\ ret.op = "search"
  /\ Len(ret.arg.query) # dimension
  /\ ret.status = "throw"
  /\ memoryStore # <<>>

(***************************************************************************)
(* The reasoning bank.  A string is its sequence of characters;            *)
(* toLowerCase maps each capital letter to its small letter and keeps      *)
(* every other character.                                                  *)
(***************************************************************************)
MaxBank == 2

Capitals == <<"A", "B", "C">>
Smalls == <<"a", "b", "c">>

LowerChar(c) ==
  IF \E i \in 1..Len(Capitals) : Capitals[i] = c
  THEN Smalls[CHOOSE i \in 1..Len(Capitals) : Capitals[i] = c]
  ELSE c

\* toLowerCase left out: the string as it is.
ToLowerCaseVerbatim(s) == s

\* String.prototype.toLowerCase
ToLowerCase(s) == [i \in 1..Len(s) |-> LowerChar(s[i])]

\* String.prototype.includes
Includes(s, part) ==
  \E start \in 1..(Len(s) - Len(part) + 1) :
    SubSeq(s, start, start + Len(part) - 1) = part

\* getReasoning(id)
GetReasoningOp(t, id) ==
  Outcome(t, <<>>, "ok",
          IF MapHas(t.reasoningBank, id) THEN MapGet(t.reasoningBank, id)
          ELSE "undefined")

\* The test of searchReasoning on one entry.
EntryMatches(entry, searchTerm) ==
  \/ Includes(ToLowerCase(entry.context), ToLowerCase(searchTerm))
  \/ Includes(ToLowerCase(entry.reasoning), ToLowerCase(searchTerm))

\* The results of searchReasoning over the entries from position i on.
RECURSIVE ReasoningResults(_, _, _)
ReasoningResults(bank, searchTerm, i) ==
  IF i > Len(bank) THEN <<>>
  ELSE LET id == bank[i][1]
           entry == bank[i][2]
           rest == ReasoningResults(bank, searchTerm, i + 1)
       IN IF EntryMatches(entry, searchTerm)
          THEN <<[id |-> id, context |-> entry.context,
                  reasoning |-> entry.reasoning, metadata |-> entry.metadata,
                  timestamp |-> entry.timestamp]>> \o rest
          ELSE rest

\* searchReasoning(searchTerm)
SearchReasoningOp(t, searchTerm) ==
  Outcome(t, <<>>, "ok", ReasoningResults(t.reasoningBank, searchTerm, 1))

BankContexts == {<<"A", "b">>, <<"c">>}
BankReasonings == {<<"b", "C">>}
BankSuffixes == {1, 2}
ReasoningIds == ClockValues \X BankSuffixes
SearchTerms == {<<"a">>, <<"B", "c">>, <<"b">>, <<"x">>, <<>>}

BankAddReasoning ==
  /\ Len(reasoningBank) < MaxBank
  /\ \E context \in BankContexts, reasoning \in BankReasonings,
        metadata \in AddMetadata, random \in BankSuffixes :
       Becomes("addReasoning",
               [context |-> context, reasoning |-> reasoning,
                metadata |-> metadata],
               AddReasoningOp(this, context, reasoning, metadata, now, random))
  /\ saved' = <<>>
  /\ UNCHANGED <<now, deleted>>

GetReasoning ==
  /\ \E id \in ReasoningIds :
       Becomes("getReasoning", [id |-> id], GetReasoningOp(this, id))
  /\ saved' = <<>>
  /\ UNCHANGED <<now, deleted>>

SearchReasoning ==
  /\ \E searchTerm \in SearchTerms :
       Becomes("searchReasoning", [searchTerm |-> searchTerm],
               SearchReasoningOp(this, searchTerm))
  /\ saved' = <<>>
  /\ UNCHANGED <<now, deleted>>

\* The vector calls next to the bank: one vector, added once.
BankAddVector ==
  /\ currentId = 0
  /\ Becomes("addVector", [vector |-> <<1, 0>>, metadata |-> MetaA1C1],
             AddVectorOp(this, <<1, 0>>, MetaA1C1, now))
  /\ saved' = <<>>
  /\ UNCHANGED <<now, deleted>>

NextBank ==
  \/ BankAddReasoning
  \/ GetReasoning
  \/ SearchReasoning
  \/ BankAddVector
  \/ Search
  \/ DeleteVector
  \/ UpdateMetadata
  \/ Clear
  \/ Export
  \/ Import
  \/ Tick

SpecBank == Init /\ [][NextBank]_vars

\* C14: every addReasoning call returns an id that no earlier addReasoning
\* call on the instance has returned, also within one clock tick, so the
\* bank grows by exactly one record and no record already in it is replaced.
\* (In SpecBank every key of the bank has been returned by addReasoning on
\* this instance.)
C14_AddReasoningIdsAreFresh ==
  [][Called("addReasoning")
       => /\ ret'.value \notin MapKeys(reasoningBank)
          /\ Len(reasoningBank') = Len(reasoningBank) + 1
          /\ \A i \in 1..Len(reasoningBank) :
               reasoningBank'[i] = reasoningBank[i]]_vars

\* C15: searchReasoning(term) returns exactly the records whose context or
\* reasoning holds term at some offset when capitals and small letters are
\* taken as equal, in the order of their insertion; so every part of a
\* record's context or reasoning finds it, and a term found in no record
\* gives the empty list.
C15_SearchReasoningIsCaseInsensitiveSubstring ==
  (ret.op = "searchReasoning")
    => LET term == ret.arg.searchTerm
           Holds(str) ==
             \E o \in 0..(Len(str) - Len(term)) :
               \A j \in 1..Len(term) : LowerChar(str[o + j]) = LowerChar(term[j])
           matching == {i \in 1..Len(reasoningBank) :
                          \/ Holds(reasoningBank[i][2].context)
                          \/ Holds(reasoningBank[i][2].reasoning)}
       IN /\ ret.status = "ok"
          /\ Len(ret.value) = Cardinality(matching)
          /\ \A n \in 1..Len(ret.value) :
               \E i \in matching :
                 /\ Cardinality({j \in matching : j < i}) = n - 1
                 /\ ret.value[n].id = reasoningBank[i][1]
                 /\ ret.value[n].context = reasoningBank[i][2].context
                 /\ ret.value[n].reasoning = reasoningBank[i][2].reasoning
                 /\ ret.value[n].metadata = reasoningBank[i][2].metadata

C15_OneOfTwoMatchedIgnoringCase ==
  /\ ret.op = "searchReasoning"
  /\ ret.arg.searchTerm = <<"a">>
  /\ Len(reasoningBank) = 2
  /\ Len(ret.value) = 1
  /\ ret.value[1].context = <<"A", "b">>

\* C16: a record of the bank keeps its context, reasoning and metadata under
\* its id through every call other than clear() and import(), and
\* getReasoning(id) returns the record of id, or undefined without throwing
\* when the bank has none.
C16_ReasoningRecordsPersist ==
  [][/\ (~Called("clear") /\ ~Called("import"))
          => \A i \in 1..Len(reasoningBank) :
               LET id == reasoningBank[i][1]
                   old == reasoningBank[i][2]
               IN /\ MapHas(reasoningBank', id)
                  /\ MapGet(reasoningBank', id).context = old.context
                  /\ MapGet(reasoningBank', id).reasoning = old.reasoning
                  /\ MapGet(reasoningBank', id).metadata = old.metadata
     /\ Called("getReasoning")
          => /\ ret'.status = "ok"
             /\ ret'.value = IF MapHas(reasoningBank, ret'.arg.id)
                             THEN MapGet(reasoningBank, ret'.arg.id)
                             ELSE "undefined"]_vars

\* Some search on instance t returns id.
Searchable(t, id) ==
  \E query \in ValidVectors \cup {LongVector}, k \in 1..t.maxElements :
    \E r \in SearchOutcomes(t, query, k) :
      r.status = "ok" /\ id \in {r.value[i].id : i \in 1..Len(r.value)}

\* C17: every notification is delivered with the mutation it reports applied:
\* a listener querying the instance finds the added id stored and
\* searchable, the deleted id gone from the store and from search results,
\* the metadata of the update readable, the reasoning id resolving, the
\* stores empty after cleared and the reported counts after imported; the
\* last notification of a completed call is delivered in the call's final
\* state.
C17_ListenersSeeTheReportedState ==
  /\ \A n \in 1..Len(emitted) :
       LET type == emitted[n].type
           payload == emitted[n].payload
           seen == emitted[n].seen
       IN /\ type = "vectorAdded"
               => /\ MapHas(seen.memoryStore, payload.id)
                  /\ Searchable(seen, payload.id)
          /\ type = "vectorDeleted"
               => /\ ~MapHas(seen.memoryStore, payload.id)
                  /\ ~Searchable(seen, payload.id)
          /\ type = "metadataUpdated"
               => /\ MapHas(seen.memoryStore, payload.id)
                  /\ \A key \in DOMAIN payload.metadata :
                       /\ key \in DOMAIN MapGet(seen.memoryStore, payload.id).metadata
                       /\ MapGet(seen.memoryStore, payload.id).metadata[key]
                            = payload.metadata[key]
          /\ type = "reasoningAdded"
               => /\ MapHas(seen.reasoningBank, payload.id)
                  /\ MapGet(seen.reasoningBank, payload.id).context = payload.context
          /\ type = "cleared"
               => /\ seen.memoryStore = <<>>
                  /\ seen.reasoningBank = <<>>
                  /\ seen.index.points = <<>>
                  /\ seen.currentId = 0
          /\ type = "imported"
               => /\ payload.vectors = Len(seen.memoryStore)
                  /\ payload.reasoning = Len(seen.reasoningBank)
  /\ (ret.status = "ok" /\ emitted # <<>>) => emitted[Len(emitted)].seen = this

\* C18: clear() empties the index, the memoryStore and the reasoningBank and
\* sets currentId to 0; it emits 'cleared' and nothing else, and the listener
\* of 'cleared' finds all four already reset.
C18_ClearedAfterAllReset ==
  [][Called("clear")
       => /\ ret'.status = "ok"
          /\ index'.points = <<>>
          /\ memoryStore' = <<>>
          /\ reasoningBank' = <<>>
          /\ currentId' = 0
          /\ Len(emitted') = 1
          /\ emitted'[1].type = "cleared"
          /\ emitted'[1].seen.index.points = <<>>
          /\ emitted'[1].seen.memoryStore = <<>>
          /\ emitted'[1].seen.reasoningBank = <<>>
          /\ emitted'[1].seen.currentId = 0]_vars

\* clear() has run on an instance that held a vector and a reasoning record,
\* as the snapshot exported just before shows.
C18_ClearedAFilledStore ==
  /\ ret.op = "clear"
  /\ saved # <<>>
  /\ saved[1].memoryStore # <<>>
  /\ saved[1].reasoningBank # <<>>
  /\ saved[1].currentId > 0
  /\ memoryStore = <<>>

(***************************************************************************)
(* Listeners.  db.on(type, listener) can only be called on the constructed *)
(* instance, that is, after the constructor has returned; emit calls the   *)
(* listeners held at that moment and keeps nothing for later ones.         *)
(***************************************************************************)
ListenerTypes == {"initialized", "vectorAdded", "cleared"}

\* db.on(type, listener), inherited from EventEmitter
On ==
  /\ \E type \in ListenerTypes :
       /\ listeners' = listeners \cup {type}
       /\ ret' = [op |-> "on", arg |-> [type |-> type], status |-> "ok",
                  value |-> "this"]
  /\ emitted' = <<>>
  /\ UNCHANGED <<fields, now, saved, deleted, heard, serverVars>>

NextListeners ==
  \/ On
  \/ AddVector
  \/ Clear
  \/ Tick

SpecListeners == Init /\ [][NextListeners]_vars

\* C19: a listener registered on the instance for 'initialized' is called
\* with that notification: once it is registered, the next call or clock
\* tick finds it called.
C19_InitializedListenerIsCalled ==
  [][("initialized" \in listeners) => ("initialized" \in heard')]_vars

\* The snapshots the client got from export() on an instance of the
\* dimension of this one.
ExportedSnapshots ==
  {data \in {PeerSnapshot} \cup {saved[i] : i \in 1..Len(saved)} :
     data.config.dimension = dimension}

\* C20: export() right after import(s), s exported by a store of the same
\* dimension, yields s again: the same ids, vectors, metadata and timestamps
\* of the records, the same reasoning bank, the same currentId and the same
\* configuration, whatever the instance held before.
C20_ExportAfterImportIsTheSnapshot ==
  [][(Called("import") /\ ret'.arg.data \in ExportedSnapshots)
       => /\ ret'.status = "ok"
          /\ ExportOp(this').value = ret'.arg.data]_vars

\* C21: the dimension the facade validates against is the dimension the
\* index was built with, in every reachable state.
C21_DimensionIsTheIndexDimension == dimension = index.dim

\* C22: currentId never decreases in a call other than clear() and import(),
\* so only those two take it back to zero.
C22_CurrentIdNeverDecreases ==
  [][(~Called("clear") /\ ~Called("import")) => currentId' >= currentId]_vars

\* A record has been deleted from a store whose counter had advanced, and
\* the counter stands where it was.
C22_CounterKeptAfterDelete ==
  /\ ret.op = "deleteVector"
  /\ ret.value = TRUE
  /\ currentId > 0
  /\ ret.arg.id = currentId - 1

\* C23: getStats() changes no field of the instance and emits nothing, and
\* its totalVectors and totalReasoning are the numbers of records in the
\* memoryStore and in the reasoningBank.
C23_GetStatsOnlyReads ==
  [][Called("getStats")
       => /\ ret'.status = "ok"
          /\ UNCHANGED fields
          /\ emitted' = <<>>
          /\ ret'.value.totalVectors = Cardinality(MapKeys(memoryStore))
          /\ ret'.value.totalReasoning = Cardinality(MapKeys(reasoningBank))]_vars

\* getStats() has counted a store that holds fewer records than the index
\* holds points, and a reasoning record.
C23_StatsAfterDeleteAndReasoning ==
  /\ ret.op = "getStats"
  /\ ret.value.totalVectors = 1
  /\ Len(index.points) = 2
  /\ ret.value.totalReasoning = 1

\* C24: currentId is greater than every key of the memoryStore in every
\* reachable state, so a successful addVector returns an id that was not a
\* key and leaves every record already stored as it was.
C24_CurrentIdAboveEveryKey ==
  [][/\ \A key \in MapKeys(memoryStore') : key < currentId'
     /\ (Called("addVector") /\ ret'.status = "ok")
          => /\ ret'.value \notin MapKeys(memoryStore)
             /\ \A i \in 1..Len(memoryStore) : memoryStore'[i] = memoryStore[i]]_vars

\* import has renumbered the one record of a snapshot whose counter stood
\* at 2: the key is 0 and currentId is 2.
C24_ImportedBelowCounter ==
  /\ ret.op = "import"
  /\ ret.status = "ok"
  /\ ret.arg.data = PeerSnapshot
  /\ MapKeys(memoryStore) = {0}
  /\ currentId = 2

\* C25: every key of the memoryStore is a label of the index, in every
\* reachable state.
C25_RecordsAreIndexed == MapKeys(memoryStore) \subseteq IndexLabels(index)

\* addVector has failed in index.addPoint on a full index, and left no
\* record behind.
C25_FullIndexRefusedTheAdd ==
  /\ ret.op = "addVector"
  /\ ret.status = "throw"
  /\ ret.value = "ExceedsLimit"
  /\ Len(index.points) = maxElements

\* The snapshots the client got from export(), on this instance or another.
WholeSnapshots ==
  {ForeignSnapshot, PeerSnapshot} \cup {saved[i] : i \in 1..Len(saved)}

\* C26: import(snapshot) emits 'cleared', then one 'vectorAdded' for each
\* vector of the snapshot in the snapshot's order, each while the
\* reasoningBank is still empty and currentId still counts the records
\* replayed, then one 'imported' whose counts are the final sizes of the
\* memoryStore and the reasoningBank.
C26_ImportNotifiesInOrder ==
  [][(Called("import") /\ ret'.arg.data \in WholeSnapshots)
       => LET entries == ret'.arg.data.memoryStore
              n == Len(entries)
          IN /\ Len(emitted') = n + 2
             /\ emitted'[1].type = "cleared"
             /\ \A i \in 1..n :
                  /\ emitted'[i + 1].type = "vectorAdded"
                  /\ emitted'[i + 1].payload.metadata = entries[i].metadata
                  /\ MapGet(emitted'[i + 1].seen.memoryStore,
                            emitted'[i + 1].payload.id).vector = entries[i].vector
                  /\ emitted'[i + 1].seen.reasoningBank = <<>>
                  /\ emitted'[i + 1].seen.currentId = i
             /\ emitted'[n + 2].type = "imported"
             /\ emitted'[n + 2].payload.vectors = Len(memoryStore')
             /\ emitted'[n + 2].payload.reasoning = Len(reasoningBank')]_vars

(***************************************************************************)
(* The trading server.  A JavaScript number that results from a division   *)
(* is carried as a fraction <<numerator, denominator>> in lowest terms     *)
(* with a positive denominator; denominator 0 stands for Infinity,         *)
(* -Infinity and NaN (numerator 1, -1 and 0).                              *)
(***************************************************************************)
MaxClients == 2
MaxBalance == 10000
MaxHolding == 1

RECURSIVE Gcd(_, _)
Gcd(a, b) == IF b = 0 THEN a ELSE Gcd(b, a % b)

Fraction(n, d) ==
  IF d = 0 THEN <<(IF n = 0 THEN 0 ELSE Sign(n)), 0>>
  ELSE LET g == Gcd(Abs(n), Abs(d))
       IN <<(Sign(d) * n) \div g, Abs(d) \div g>>

\* pair.split('/'), for the pairs of the model
Split(pair) ==
  CASE pair = "BTC/USD" -> <<"BTC", "USD">>
    [] pair = "ETH/USD" -> <<"ETH", "USD">>

\* new UserAccount(id)
UserAccount(id) == [id |-> id, balance |-> 10000, portfolio |-> <<>>]

\* this.portfolio[asset], the portfolio being a Map from asset to holding
\* UserAccount.buyAsset(pair, amount, price)
BuyAsset(account, pair, amount, price) ==
  LET asset == Split(pair)[1]
      total == amount * price
  IN IF account.balance < total
     THEN [status |-> "throw", value |-> "Insufficient balance", account |-> account]
     ELSE LET held == IF MapHas(account.portfolio, asset)
                      THEN MapGet(account.portfolio, asset)
                      ELSE [amount |-> 0, avgPrice |-> <<0, 1>>]
              currentValue == Fraction(held.amount * held.avgPrice[1], held.avgPrice[2])
              newValue == Fraction(currentValue[1] + total * currentValue[2],
                                   currentValue[2])
              newAmount == held.amount + amount
          IN [status |-> "ok", value |-> [success |-> TRUE],
              account |->
                [account EXCEPT
                   !.balance = @ - total,
                   !.portfolio =
                     MapSet(@, asset,
                            [amount |-> newAmount,
                             avgPrice |->
                               IF newValue[2] = 0
                               THEN <<newValue[1] * Sign(newAmount), 0>>
                               ELSE Fraction(newValue[1],
                                             newValue[2] * newAmount)])]]

\* UserAccount.sellAsset(pair, amount, price)
SellAsset(account, pair, amount, price) ==
  LET asset == Split(pair)[1]
      total == amount * price
  IN IF ~MapHas(account.portfolio, asset)
        \/ MapGet(account.portfolio, asset).amount < amount
     THEN [status |-> "throw", value |-> "Insufficient assets", account |-> account]
     ELSE LET held == MapGet(account.portfolio, asset)
              left == held.amount - amount
          IN [status |-> "ok", value |-> [success |-> TRUE],
              account |->
                [account EXCEPT
                   !.balance = @ + total,
                   !.portfolio =
                     IF left = 0 THEN MapDelete(@, asset)
                     ELSE MapSet(@, asset, [held EXCEPT !.amount = left])]]

\* generateOrderBook(pair, currentPrice), without its random amounts: the
\* price the book is built around.
GenerateOrderBook(pair, currentPrice) == [around |-> currentPrice]

\* The messages clients send.
UnknownPair == "XYZ/USD"
TradePairs == {"BTC/USD"}
TradeAmounts == {-1, 0, 1}
TradePrices == {6000}
Messages ==
  [type : {"subscribe"}, pair : Pairs \cup {UnknownPair}]
  \cup [type : {"trade"}, tradeType : {"buy", "sell"}, pair : TradePairs,
        amount : TradeAmounts, price : TradePrices]

\* handleTrade(ws, data) for the connection at position c: the accounts
\* afterwards and the message sent.
HandleTrade(c, data) ==
  LET userId == clients[c].userId
      user == MapGet(users, userId)
      done == IF data.tradeType = "buy"
              THEN BuyAsset(user, data.pair, data.amount, data.price)
              ELSE SellAsset(user, data.pair, data.amount, data.price)
  IN IF done.status = "ok"
     THEN [users |-> MapSet(users, userId, done.account),
           sent |-> <<[to |-> c, type |-> "trade_success",
                       tradeType |-> data.tradeType, pair |-> data.pair,
                       amount |-> data.amount, price |-> data.price,
                       balance |-> done.account.balance,
                       portfolio |-> done.account.portfolio]>>]
     ELSE [users |-> users,
           sent |-> <<[to |-> c, type |-> "trade_error", message |-> done.value]>>]

agentDbUnchanged ==
  UNCHANGED <<fields, saved, emitted, ret, deleted, listeners, heard>>

\* wss.on('connection'): Date.now().toString() is carried as the clock
\* value it spells.
Connection ==
  /\ Len(clients) < MaxClients
  /\ LET userId == now
         c == Len(clients) + 1
     IN /\ users' = IF MapHas(users, userId) THEN users
                    ELSE MapSet(users, userId, UserAccount(userId))
        /\ clients' = Append(clients, [userId |-> userId,
                                       subscribedPair |-> "BTC/USD"])
        /\ sent' = <<[to |-> c, type |-> "markets", markets |-> markets],
                     [to |-> c, type |-> "orderbook", pair |-> "BTC/USD",
                      orderbook |-> GenerateOrderBook("BTC/USD",
                                                      markets["BTC/USD"].price)]>>
        /\ handled' = <<[event |-> "connection", client |-> c]>>
  /\ UNCHANGED <<markets, priceHistory, updates, now>>
  /\ agentDbUnchanged

\* No holding and no balance beyond what the model follows.
WithinCaps(account) ==
  /\ Abs(account.balance) <= MaxBalance
  /\ \A i \in 1..Len(account.portfolio) :
       Abs(account.portfolio[i][2].amount) <= MaxHolding

\* ws.on('message') of the connection at position c
Message ==
  /\ \E c \in 1..Len(clients), data \in Messages :
       /\ handled' = <<[event |-> "message", client |-> c, data |-> data]>>
       /\ IF data.type = "subscribe"
          THEN /\ clients' = [clients EXCEPT ![c].subscribedPair = data.pair]
               /\ users' = users
               /\ sent' = IF data.pair \in DOMAIN markets
                          THEN <<[to |-> c, type |-> "orderbook", pair |-> data.pair,
                                  orderbook |->
                                    GenerateOrderBook(data.pair,
                                                      markets[data.pair].price)]>>
                          ELSE <<[to |-> c, type |-> "error",
                                  message |-> "TypeError"]>>
          ELSE /\ WithinCaps(MapGet(users, clients[c].userId))
               /\ clients' = clients
               /\ users' = HandleTrade(c, data).users
               /\ sent' = HandleTrade(c, data).sent
  /\ UNCHANGED <<markets, priceHistory, updates, now>>
  /\ agentDbUnchanged

PairOrder == <<"BTC/USD", "ETH/USD">>

\* The connections, in order, whose subscribedPair is pair.
RECURSIVE Subscribers(_, _)
Subscribers(pair, c) ==
  IF c > Len(clients) THEN <<>>
  ELSE (IF clients[c].subscribedPair = pair THEN <<c>> ELSE <<>>)
       \o Subscribers(pair, c + 1)

\* broadcastPriceUpdates(): every connection is OPEN and has a
\* subscribedPair, so each gets the update of the market named by it.
RECURSIVE PriceUpdates(_)
PriceUpdates(c) ==
  IF c > Len(clients) THEN <<>>
  ELSE (IF clients[c].subscribedPair \in DOMAIN markets
        THEN <<[to |-> c, type |-> "price_update",
                pair |-> clients[c].subscribedPair,
                price |-> markets[clients[c].subscribedPair].price,
                change |-> markets[clients[c].subscribedPair].change]>>
        ELSE <<>>)
       \o PriceUpdates(c + 1)

BroadcastPriceUpdates ==
  /\ clients # <<>>
  /\ sent' = PriceUpdates(1)
  /\ handled' = <<[event |-> "broadcastPriceUpdates"]>>
  /\ UNCHANGED <<markets, priceHistory, updates, users, clients, now>>
  /\ agentDbUnchanged

\* broadcastOrderBook(pair)
OrderBooks(pair) ==
  LET to == Subscribers(pair, 1)
  IN [i \in 1..Len(to) |->
        [to |-> to[i], type |-> "orderbook", pair |-> pair,
         orderbook |-> GenerateOrderBook(pair, markets[pair].price)]]

\* The order book timer: broadcastOrderBook for every market in turn.
BroadcastOrderBook ==
  /\ clients # <<>>
  /\ sent' = OrderBooks(PairOrder[1]) \o OrderBooks(PairOrder[2])
  /\ handled' = <<[event |-> "broadcastOrderBook"]>>
  /\ UNCHANGED <<markets, priceHistory, updates, users, clients, now>>
  /\ agentDbUnchanged

\* The clock of the server process.
ServerTick ==
  /\ now + 1 \in ClockValues
  /\ now' = now + 1
  /\ UNCHANGED serverVars
  /\ agentDbUnchanged

NextTrading ==
  \/ Connection
  \/ Message
  \/ BroadcastPriceUpdates
  \/ BroadcastOrderBook
  \/ ServerTick

SpecTrading == Init /\ [][NextTrading]_vars

\* The step handled a 'trade' message.
TradeHandled ==
  /\ handled' # <<>>
  /\ handled'[1].event = "message"
  /\ handled'[1].data.type = "trade"

\* C27: after any 'trade' message handled for an account, its balance is
\* not negative and every asset left in its portfolio has a strictly
\* positive amount; a rejected trade leaves the accounts as they were.
C27_TradesKeepAccountsSound ==
  [][TradeHandled =>
       /\ \A u \in 1..Len(users') :
            /\ users'[u][2].balance >= 0
            /\ \A a \in 1..Len(users'[u][2].portfolio) :
                 users'[u][2].portfolio[a][2].amount > 0
       /\ sent'[1].type = "trade_error" => users' = users]_vars

\* The step handled a 'subscribe' message naming no market.
UnknownSubscribeHandled ==
  /\ handled' # <<>>
  /\ handled'[1].event = "message"
  /\ handled'[1].data.type = "subscribe"
  /\ handled'[1].data.pair \notin DOMAIN markets

\* The step ran the broadcast named by event.
Broadcast(event) == handled' # <<>> /\ handled'[1].event = event

\* C29: a 'subscribe' naming an unknown pair is answered with an error and
\* leaves the connection's subscribedPair as it was, so every broadcast
\* still reaches every connection.
C29_UnknownSubscribeKeepsPair ==
  [][/\ UnknownSubscribeHandled =>
          LET c == handled'[1].client
          IN /\ Len(sent') = 1
             /\ sent'[1].to = c
             /\ sent'[1].type = "error"
             /\ clients'[c].subscribedPair = clients[c].subscribedPair
     /\ Broadcast("broadcastPriceUpdates") \/ Broadcast("broadcastOrderBook") =>
          \A c \in 1..Len(clients) : \E i \in 1..Len(sent') : sent'[i].to = c]_vars

\* The step accepted a connection.
ConnectionHandled == handled' # <<>> /\ handled'[1].event = "connection"

\* The account the connection at position c trades on.
AccountOf(accounts, c) == MapGet(accounts, clients'[c].userId)

\* C30: a new connection is bound to an account of its own, with balance
\* 10000 and nothing held, and a trade on one connection changes the
\* account of no other connection.
C30_ConnectionsHaveOwnAccounts ==
  [][/\ ConnectionHandled =>
          LET c == handled'[1].client
          IN /\ AccountOf(users', c).balance = 10000
             /\ AccountOf(users', c).portfolio = <<>>
             /\ \A d \in 1..Len(clients') :
                  d # c => clients'[d].userId # clients'[c].userId
     /\ TradeHandled =>
          \A d \in 1..Len(clients') :
            d # handled'[1].client => AccountOf(users', d) = AccountOf(users, d)]_vars

(***************************************************************************)
(* The price simulation.  Math.random() is drawn in tenths; the first     *)
(* FreeUpdates ticks and the ticks after SteadyUpdates draw freely, the    *)
(* ticks in between draw 0.5, which leaves only the mean reversion.  The   *)
(* mean reversion is rounded down to a thousandth of a dollar.             *)
(***************************************************************************)
HistoryLimit == 1000
FreeUpdates == 1
SteadyUpdates == 999
MaxUpdates == 1001
RandomDraws == {0, 5, 7}

MathMax(a, b) == IF a >= b THEN a ELSE b

\* One iteration of the forEach of updatePrices(): markets[pair] afterwards.
UpdatedMarket(pair, draw) ==
  LET data == markets[pair]
      change == ((draw - 5) * Volatility[pair]) \div 10
      meanReversion == (priceHistory[pair][1] - data.price) \div 1000
      price == MathMax(data.price + change + meanReversion, 10)
      initialPrice == priceHistory[pair][1]
  IN [price |-> price,
      change |-> Fraction((price - initialPrice) * 100, initialPrice)]

\* priceHistory[pair] after the push and the shift.
UpdatedHistory(pair, price) ==
  LET pushed == Append(priceHistory[pair], price)
  IN IF Len(pushed) > HistoryLimit THEN Tail(pushed) ELSE pushed

\* updatePrices()
UpdatePrices ==
  /\ updates < MaxUpdates
  /\ \E draw \in [Pairs -> IF updates < FreeUpdates \/ updates >= SteadyUpdates
                           THEN RandomDraws ELSE {5}] :
       /\ markets' = [pair \in Pairs |-> UpdatedMarket(pair, draw[pair])]
       /\ priceHistory' =
            [pair \in Pairs |->
               UpdatedHistory(pair, UpdatedMarket(pair, draw[pair]).price)]
  /\ updates' = updates + 1
  /\ handled' = <<[event |-> "updatePrices"]>>
  /\ sent' = <<>>
  /\ UNCHANGED <<users, clients, now>>
  /\ agentDbUnchanged

NextPrices == UpdatePrices

SpecPrices == Init /\ [][NextPrices]_vars

\* C28: the anchor priceHistory[pair][0] is the market's startup price, the
\* reported change is the percentage change from that price, and no
\* history is longer than 1000.
C28_AnchorIsTheStartupPrice ==
  \A pair \in Pairs :
    /\ priceHistory[pair][1] = StartPrice[pair]
    /\ markets[pair].change =
         Fraction((markets[pair].price - StartPrice[pair]) * 100, StartPrice[pair])
    /\ Len(priceHistory[pair]) <= HistoryLimit

====
